---- MODULE Spec2Model ----
(***************************************************************************)
(* A model of the fast-wfc-rs core solver: the Wave (allow-set and entropy *)
(* memo), the Propagator (support counters and propagation queue) and the  *)
(* WFC observe/propagate loop.                                             *)
(*                                                                         *)
(* Reals (f32) are modelled by integers: pattern weights are positive      *)
(* integers, ln is a table of micro-units that is consistent with          *)
(* multiplication (ln 4 = 2 ln 2, ...), and entropies are compared as      *)
(* exact fractions.  The draws of the xorshift generator are inputs of     *)
(* the operators (a function from the draw's position to its value).       *)
(***************************************************************************)
EXTENDS Integers, Naturals, Sequences, FiniteSets, TLC

\* ------------------------------------------------------------------ bounds
MaxHeight == 2
MaxWidth == 2
NumPatterns == 2
NumWavePatterns == 3
MaxWeight == 2
\* The side of a Vec2D given to the grid transforms, and its symbols.
MaxGridSide == 3
NumSymbols == 2
\* The side and the number of cells of the input of get_patterns, the side
\* of a pattern, and the length of a pattern list given to
\* precompute_compatible.
MaxInputSide == 3
MaxInputCells == 6
MaxPatternSize == 2
MaxListed == 2
\* The side and the number of cells of the output of the overlapping
\* front-end.
MaxOutSide == 3
MaxOutCells == 6
\* The side of a tile's content, the number of tiles, the number of entries
\* of the neighbour list, and the largest tile weight in eighths.
MaxTileSide == 2
MaxTiles == 2
MaxNeighbors == 1
MaxTileWeight == 2
\* The side, less one, of the grid the directions are walked on.
MaxWalk == 4

\* ------------------------------------------------------------ direction.rs
Down == 0
Left == 1
Right == 2
Up == 3

directions == <<Down, Left, Right, Up>>

Direction == {Down, Left, Right, Up}

\* An opposite that is a quarter turn.
opposite_quarter_turn(d) ==
    CASE d = Down -> Left
      [] d = Left -> Up
      [] d = Right -> Down
      [] d = Up -> Right

opposite(d) ==
    CASE d = Down -> Up
      [] d = Left -> Right
      [] d = Right -> Left
      [] d = Up -> Down

get_coordinates(d) ==
    CASE d = Down -> <<-1, 0>>
      [] d = Left -> <<0, -1>>
      [] d = Right -> <<0, 1>>
      [] d = Up -> <<1, 0>>

\* ------------------------------------------------------------------ helpers
Patterns == 0..(NumPatterns - 1)

RECURSIVE SortedSeq(_)
\* The increasing sequence of the elements of a finite set of integers.
SortedSeq(S) ==
    IF S = {} THEN <<>>
    ELSE LET m == CHOOSE a \in S : \A b \in S : a <= b
         IN <<m>> \o SortedSeq(S \ {m})

SeqToSet(seq) == {seq[i] : i \in 1..Len(seq)}

\* ln in micro-units, consistent with products (ln(ab) = ln a + ln b).
Ln2 == 693147
Ln3 == 1098612
Ln5 == 1609438
Ln7 == 1945910
Ln11 == 2397895

ln(n) ==
    CASE n = 1 -> 0
      [] n = 2 -> Ln2
      [] n = 3 -> Ln3
      [] n = 4 -> 2 * Ln2
      [] n = 5 -> Ln5
      [] n = 6 -> Ln2 + Ln3
      [] n = 7 -> Ln7
      [] n = 8 -> 3 * Ln2
      [] n = 9 -> 2 * Ln3
      [] n = 10 -> Ln2 + Ln5
      [] n = 11 -> Ln11
      [] n = 12 -> 2 * Ln2 + Ln3

\* ------------------------------------------------------------ utils/vec2d.rs
\* Vec2D::from_vec: the values line after line (height * width of them).
from_vec(data, height, width) ==
    [height |-> height, width |-> width, data |-> data]

\* self[i][j]: Index<usize> gives line i, the slice's index the value.
At(g, i, j) == g.data[i * g.width + j + 1]

\* The index pairs from_generator calls its generator with.
Indices(height, width) == (0..(height - 1)) \X (0..(width - 1))

\* Vec2D::from_generator: generator is the closure, a function of <<i, j>>.
from_generator(height, width, generator) ==
    from_vec([k \in 1..(height * width) |->
                 generator[<<(k - 1) \div width, (k - 1) % width>>]],
             height, width)

\* Vec2D::reflected: every line reversed.
reflected(g) ==
    IF g.width = 0 THEN g
    ELSE from_vec([k \in 1..Len(g.data) |->
                      g.data[((k - 1) \div g.width) * g.width
                             + (g.width - 1 - ((k - 1) % g.width)) + 1]],
                  g.height, g.width)

\* A quarter turn the other way round.
rotated_clockwise(g) ==
    IF g.data = <<>> THEN from_vec(<<>>, g.width, g.height)
    ELSE from_generator(g.width, g.height,
            [yx \in Indices(g.width, g.height) |->
                At(g, g.height - 1 - yx[2], yx[1])])

\* Vec2D::rotated
rotated(g) ==
    IF g.data = <<>> THEN from_vec(<<>>, g.width, g.height)
    ELSE from_generator(g.width, g.height,
            [yx \in Indices(g.width, g.height) |->
                At(g, yx[2], g.width - 1 - yx[1])])

\* Vec2D::get_sub_vec: the lines and columns wrap around.
get_sub_vec(g, y, x, sub_height, sub_width) ==
    IF g.data = <<>> THEN from_vec(<<>>, g.height, g.width)
    ELSE from_generator(sub_height, sub_width,
            [d \in Indices(sub_height, sub_width) |->
                At(g, (y + d[1]) % g.height, (x + d[2]) % g.width)])

\* --------------------------------------------------------------- the state
VARIABLES
    wfc,        \* the WFC object: solver, propagator and wave fields
    pc,         \* "idle", or "run" while WFC::run is looping
    result,     \* what the last call of run returned
    observed,   \* the steps of the current or last run that returned Ok
    twin,       \* a second instance given the same calls (NoTwin if unused)
    front       \* the front-end's own fields (NoFront for the bare solver)

vars == <<wfc, pc, result, observed, twin, front>>

Cells(h, w) == (0..(h - 1)) \X (0..(w - 1))

\* ------------------------------------------------------------------ wave.rs
\* EntropyMemoization::new: one memo cell, copied to every cell.
EntropyMemoizationNew(weights) ==
    LET RECURSIVE Sum(_, _)
        Sum(f, S) == IF S = {} THEN 0
                     ELSE LET a == CHOOSE b \in S : TRUE
                          IN f[a] + Sum(f, S \ {a})
    IN [plogp_sum |-> Sum([p \in DOMAIN weights |-> weights[p] * ln(weights[p])],
                          DOMAIN weights),
        sum |-> Sum(weights, DOMAIN weights),
        n_patterns |-> Cardinality(DOMAIN weights)]

\* EntropyMemoizationCell::update.  n_patterns is a usize: a negative value
\* here stands for the wrapped value of a release build.
MemoUpdate(m, weight) ==
    [plogp_sum |-> m.plogp_sum - weight * ln(weight),
     sum |-> m.sum - weight,
     n_patterns |-> m.n_patterns - 1]

\* Wave::get
WaveGet(st, i, j, pattern) == st.data[<<i, j>>][pattern]

\* A Wave::unset that updates the memo without looking at the bit.
WaveUnsetUnguarded(st, i, j, pattern) ==
    [st EXCEPT !.data[<<i, j>>][pattern] = FALSE,
               !.entropy_memoization[<<i, j>>] =
                   MemoUpdate(@, st.patterns_weights[pattern])]

\* Wave::unset
WaveUnset(st, i, j, pattern) ==
    IF st.data[<<i, j>>][pattern]
    THEN [st EXCEPT !.data[<<i, j>>][pattern] = FALSE,
                    !.entropy_memoization[<<i, j>>] =
                        MemoUpdate(@, st.patterns_weights[pattern])]
    ELSE st

\* Wave::reset
WaveReset(st) ==
    [st EXCEPT !.data = [c \in Cells(st.height, st.width) |->
                            [p \in DOMAIN st.patterns_weights |-> TRUE]],
               !.entropy_memoization =
                   [c \in Cells(st.height, st.width) |->
                       EntropyMemoizationNew(st.patterns_weights)]]

\* ------------------------------------------------------------ propagator.rs
\* The initial counters of Propagator::new and Propagator::reset.
InitialCompatible(h, w, compat) ==
    [c \in Cells(h, w) |->
        [p \in DOMAIN compat |->
            [d \in Direction |-> Len(compat[p][opposite(d)])]]]

\* The neighbouring cell of propagate: <<exists, y2, x2>>.
Neighbor(st, y1, x1, d) ==
    LET dy == get_coordinates(d)[1]
        dx == get_coordinates(d)[2]
    IN IF st.is_toric
       THEN <<TRUE, (y1 + dy + st.height) % st.height,
                    (x1 + dx + st.width) % st.width>>
       ELSE LET y2 == y1 + dy
                x2 == x1 + dx
            IN IF x2 < 0 \/ x2 >= st.width THEN <<FALSE, 0, 0>>
               ELSE IF y2 < 0 \/ y2 >= st.height THEN <<FALSE, 0, 0>>
               ELSE <<TRUE, y2, x2>>

\* The inline ban taken at "value <= 0" for "value == 0".
PropagateOneNonPositive(st, y2, x2, pattern2, d) ==
    LET value == st.compatible[<<y2, x2>>][pattern2][d] - 1
        dec == [st EXCEPT !.compatible[<<y2, x2>>][pattern2][d] = value]
    IN IF value <= 0
       THEN LET un == WaveUnset(dec, y2, x2, pattern2)
            IN [un EXCEPT !.compatible[<<y2, x2>>][pattern2] =
                              [e \in Direction |-> 0],
                          !.propagating_queue =
                              Append(@, <<y2, x2, pattern2>>)]
       ELSE dec

\* The body of the inner loop of propagate for one pattern2.
PropagateOne(st, y2, x2, pattern2, d) ==
    LET value == st.compatible[<<y2, x2>>][pattern2][d] - 1
        dec == [st EXCEPT !.compatible[<<y2, x2>>][pattern2][d] = value]
    IN IF value = 0
       THEN LET un == WaveUnset(dec, y2, x2, pattern2)
            IN [un EXCEPT !.compatible[<<y2, x2>>][pattern2] =
                              [e \in Direction |-> 0],
                          !.propagating_queue =
                              Append(@, <<y2, x2, pattern2>>)]
       ELSE dec

RECURSIVE PropagatePatterns(_, _, _, _, _, _)
\* for &pattern2 in &patterns_compatibility[pattern][direction], from index i.
PropagatePatterns(st, y2, x2, list, d, i) ==
    IF i > Len(list) THEN st
    ELSE PropagatePatterns(PropagateOne(st, y2, x2, list[i], d),
                           y2, x2, list, d, i + 1)

RECURSIVE PropagateDirections(_, _, _, _, _)
\* for direction in &Direction::directions(), from index k.
PropagateDirections(st, y1, x1, pattern, k) ==
    IF k > Len(directions) THEN st
    ELSE LET d == directions[k]
             n == Neighbor(st, y1, x1, d)
             next == IF n[1]
                     THEN PropagatePatterns(st, n[2], n[3],
                              st.patterns_compatibility[pattern][d], d, 1)
                     ELSE st
         IN PropagateDirections(next, y1, x1, pattern, k + 1)

\* A propagate written with "if let" for "while let": one triple is served.
propagate_once(st) ==
    IF st.propagating_queue = <<>> THEN st
    ELSE LET q == st.propagating_queue
             item == q[Len(q)]
             popped == [st EXCEPT !.propagating_queue = SubSeq(q, 1, Len(q) - 1)]
         IN PropagateDirections(popped, item[1], item[2], item[3], 1)

RECURSIVE propagate(_)
\* Propagator::propagate: the queue is a Vec served from its end.
propagate(st) ==
    IF st.propagating_queue = <<>> THEN st
    ELSE LET q == st.propagating_queue
             item == q[Len(q)]
             popped == [st EXCEPT !.propagating_queue = SubSeq(q, 1, Len(q) - 1)]
         IN propagate(PropagateDirections(popped, item[1], item[2], item[3], 1))

\* A Propagator::unset without the test of the wave's bit.
unset_unguarded(st, y, x, pattern) ==
    LET un == WaveUnset(st, y, x, pattern)
        pushed == [un EXCEPT !.compatible[<<y, x>>][pattern] =
                                 [e \in Direction |-> 0],
                             !.propagating_queue =
                                 Append(@, <<y, x, pattern>>)]
    IN propagate(pushed)

\* A Propagator::unset that flips the bit of a pattern already banned.
unset_toggle(st, y, x, pattern) ==
    IF WaveGet(st, y, x, pattern)
    THEN LET un == WaveUnset(st, y, x, pattern)
             pushed == [un EXCEPT !.compatible[<<y, x>>][pattern] =
                                      [e \in Direction |-> 0],
                                  !.propagating_queue =
                                      Append(@, <<y, x, pattern>>)]
         IN propagate(pushed)
    ELSE [st EXCEPT !.data[<<y, x>>][pattern] = TRUE]

\* Propagator::unset
unset(st, y, x, pattern) ==
    IF WaveGet(st, y, x, pattern)
    THEN LET un == WaveUnset(st, y, x, pattern)
             pushed == [un EXCEPT !.compatible[<<y, x>>][pattern] =
                                      [e \in Direction |-> 0],
                                  !.propagating_queue =
                                      Append(@, <<y, x, pattern>>)]
         IN propagate(pushed)
    ELSE st

\* Wave::reset alone: the support counters keep their values.
reset_wave_only(st) == WaveReset(st)

\* Propagator::reset
reset(st) ==
    [WaveReset(st) EXCEPT !.compatible =
        InitialCompatible(st.height, st.width, st.patterns_compatibility)]

\* ------------------------------------------------------------------- wfc.rs
\* WFC::new (with Propagator::new and Wave::new)
new(is_toric, patterns_weights, patterns_compatibility, height, width) ==
    [is_toric |-> is_toric,
     patterns_weights |-> patterns_weights,
     patterns_compatibility |-> patterns_compatibility,
     height |-> height,
     width |-> width,
     data |-> [c \in Cells(height, width) |->
                  [p \in DOMAIN patterns_weights |-> TRUE]],
     entropy_memoization |-> [c \in Cells(height, width) |->
                                 EntropyMemoizationNew(patterns_weights)],
     compatible |-> InitialCompatible(height, width, patterns_compatibility),
     propagating_queue |-> <<>>]

\* ------------------------------------------------- wave.rs: the selector
\* Vec2D::iter_enumerate: the cells line after line, as Vec2D stores them.
iter_enumerate(h, w) ==
    [k \in 1..(h * w) |-> <<(k - 1) \div w, (k - 1) % w>>]

\* EntropyMemoizationCell::entropy, ln(sum) - plogp_sum / sum, as the
\* fraction <<numerator, denominator>>.
entropy(m) == <<ln(m.sum) * m.sum - m.plogp_sum, m.sum>>

\* A comparison that takes the larger entropy for the smaller.
partial_cmp_reversed(e, min) ==
    IF min[2] = 0 THEN "Less"
    ELSE LET l == e[1] * min[2]
             r == min[1] * e[2]
         IN IF l > r THEN "Less" ELSE IF l = r THEN "Equal" ELSE "Greater"

\* entropy.partial_cmp(&min): "Less", "Equal" or "Greater"; min starts at
\* infinity, written <<1, 0>>.
partial_cmp(e, min) ==
    IF min[2] = 0 THEN "Less"
    ELSE LET l == e[1] * min[2]
             r == min[1] * e[2]
         IN IF l < r THEN "Less" ELSE IF l = r THEN "Equal" ELSE "Greater"

I32Max == 2147483647

RECURSIVE MinEntropyScanLastTie(_, _, _, _)
\* The loop with "random <= min_random": of equal draws the last wins.
MinEntropyScanLastTie(st, rnd, k, acc) ==
    LET order == iter_enumerate(st.height, st.width)
    IN IF k > Len(order) THEN
           IF acc.argmin = <<-1, -1>>
           THEN [status |-> "Finished", cell |-> acc.argmin, used |-> acc.used]
           ELSE [status |-> "Ok", cell |-> acc.argmin, used |-> acc.used]
       ELSE LET memoization == st.entropy_memoization[order[k]]
                n_patterns == memoization.n_patterns
            IN IF n_patterns = 1 THEN MinEntropyScanLastTie(st, rnd, k + 1, acc)
               ELSE IF n_patterns = 0
               THEN [status |-> "Impossible", cell |-> <<-1, -1>>, used |-> acc.used]
               ELSE LET e == entropy(memoization)
                        cmp == partial_cmp(e, acc.min)
                        random == rnd[acc.used + 1]
                    IN IF cmp = "Less"
                       THEN MinEntropyScanLastTie(st, rnd, k + 1,
                                [min |-> e, min_random |-> random,
                                 argmin |-> order[k], used |-> acc.used + 1])
                       ELSE IF cmp = "Equal"
                       THEN IF random <= acc.min_random
                            THEN MinEntropyScanLastTie(st, rnd, k + 1,
                                     [min |-> e, min_random |-> random,
                                      argmin |-> order[k], used |-> acc.used + 1])
                            ELSE MinEntropyScanLastTie(st, rnd, k + 1,
                                     [acc EXCEPT !.used = acc.used + 1])
                       ELSE MinEntropyScanLastTie(st, rnd, k + 1, acc)

RECURSIVE MinEntropyScan(_, _, _, _)
\* The loop of Wave::get_min_entropy from the k-th cell on.  acc holds min,
\* min_random, argmin and the number of draws taken from the generator; rnd
\* gives the value of each draw by its position.
MinEntropyScan(st, rnd, k, acc) ==
    LET order == iter_enumerate(st.height, st.width)
    IN IF k > Len(order) THEN
           IF acc.argmin = <<-1, -1>>
           THEN [status |-> "Finished", cell |-> acc.argmin, used |-> acc.used]
           ELSE [status |-> "Ok", cell |-> acc.argmin, used |-> acc.used]
       ELSE LET memoization == st.entropy_memoization[order[k]]
                n_patterns == memoization.n_patterns
            IN IF n_patterns = 1 THEN MinEntropyScan(st, rnd, k + 1, acc)
               ELSE IF n_patterns = 0
               THEN [status |-> "Impossible", cell |-> <<-1, -1>>, used |-> acc.used]
               ELSE LET e == entropy(memoization)
                        cmp == partial_cmp(e, acc.min)
                        random == rnd[acc.used + 1]
                    IN IF cmp = "Less"
                       THEN MinEntropyScan(st, rnd, k + 1,
                                [min |-> e, min_random |-> random,
                                 argmin |-> order[k], used |-> acc.used + 1])
                       ELSE IF cmp = "Equal"
                       THEN IF random < acc.min_random
                            THEN MinEntropyScan(st, rnd, k + 1,
                                     [min |-> e, min_random |-> random,
                                      argmin |-> order[k], used |-> acc.used + 1])
                            ELSE MinEntropyScan(st, rnd, k + 1,
                                     [acc EXCEPT !.used = acc.used + 1])
                       ELSE MinEntropyScan(st, rnd, k + 1, acc)

\* A Wave::get_min_entropy that does not report a cell without patterns.
get_min_entropy_no_contradiction(st, rnd) ==
    LET r == MinEntropyScan(st, rnd, 1,
                 [min |-> <<1, 0>>, min_random |-> I32Max,
                  argmin |-> <<-1, -1>>, used |-> 0])
    IN IF r.status = "Impossible" THEN [r EXCEPT !.status = "Finished"] ELSE r

\* Wave::get_min_entropy
get_min_entropy(st, rnd) ==
    MinEntropyScan(st, rnd, 1,
        [min |-> <<1, 0>>, min_random |-> I32Max, argmin |-> <<-1, -1>>, used |-> 0])

\* ------------------------------------------------------------------- wfc.rs
\* The weights handed to WeightedIndex::new in WFC::step.
StepWeights(st, y, x) ==
    [p \in DOMAIN st.patterns_weights |->
        IF st.data[<<y, x>>][p] THEN st.patterns_weights[p] ELSE 0]

RECURSIVE Cumulative(_, _)
Cumulative(ws, p) == IF p < 0 THEN 0 ELSE ws[p] + Cumulative(ws, p - 1)

\* WeightedIndex::sample with the uniform draw u of [0, total): the first
\* index whose cumulative weight is above u.
WeightedSample(ws, u) ==
    CHOOSE p \in DOMAIN ws :
        /\ Cumulative(ws, p) > u
        /\ \A q \in DOMAIN ws : q < p => Cumulative(ws, q) <= u

RECURSIVE UnsetOthersBelow(_, _, _, _, _)
\* The loop stopped at the chosen pattern: for k in 0..chosen_pattern.
UnsetOthersBelow(st, y, x, chosen_pattern, k) ==
    IF k >= chosen_pattern THEN st
    ELSE UnsetOthersBelow(unset(st, y, x, k), y, x, chosen_pattern, k + 1)

RECURSIVE UnsetOthers(_, _, _, _, _)
\* for k in 0..patterns_weights.len() { if k != chosen_pattern { unset } }
UnsetOthers(st, y, x, chosen_pattern, k) ==
    IF k >= Cardinality(DOMAIN st.patterns_weights) THEN st
    ELSE UnsetOthers(IF k # chosen_pattern THEN unset(st, y, x, k) ELSE st,
                     y, x, chosen_pattern, k + 1)

\* The values of a sampling draw: as many as the weights 1..NumPatterns sum to.
SampleRange == (NumPatterns * (NumPatterns + 1)) \div 2

\* A step that bans nothing.
ObserveNothing(st, y, x, chosen_pattern) == st

\* The part of WFC::step after the cell and the pattern are drawn.
Observe(st, y, x, chosen_pattern) == UnsetOthers(st, y, x, chosen_pattern, 0)

\* The pattern WFC::step samples at the selected cell: the uniform draw of
\* [0, total) is the generator's value r of 0..SampleRange-1, scaled.
chosen_pattern(st, y, x, r) ==
    LET ws == StepWeights(st, y, x)
        total == Cumulative(ws, Cardinality(DOMAIN ws) - 1)
    IN WeightedSample(ws, (r * total) \div SampleRange)

\* WFC::to_output: "None", or the grid of the single allowed patterns.
to_output(st) ==
    LET cell_values(c) == {v \in DOMAIN st.patterns_weights : st.data[c][v]}
    IN IF \E c \in Cells(st.height, st.width) : Cardinality(cell_values(c)) # 1
       THEN [status |-> "None", grid |-> <<>>]
       ELSE [status |-> "Some",
             grid |-> [c \in Cells(st.height, st.width) |->
                          CHOOSE v \in cell_values(c) : TRUE]]

\* WFC::restart (the generator is re-seeded; its draws are inputs here)
restart(st) == reset(st)

\* ------------------------------------------------------- overlapping_wfc.rs
\* The comparison loop of is_compatible for the unit vector (dy, dx).
Overlap(pattern1, pattern2, dy, dx) ==
    LET x_min == IF dx < 0 THEN 0 ELSE dx
        x_max == IF dx < 0 THEN dx + pattern2.width ELSE pattern1.width
        y_min == IF dy < 0 THEN 0 ELSE dy
        y_max == IF dy < 0 THEN dy + pattern2.height ELSE pattern1.width
    IN \A y \in y_min..(y_max - 1), x \in x_min..(x_max - 1) :
          At(pattern1, y, x) = At(pattern2, y - dy, x - dx)

\* The overlap measured along the axis only, whichever way dir points.
is_compatible_absolute(pattern1, pattern2, dir) ==
    LET dy == get_coordinates(dir)[1]
        dx == get_coordinates(dir)[2]
    IN Overlap(pattern1, pattern2,
               IF dy < 0 THEN -dy ELSE dy, IF dx < 0 THEN -dx ELSE dx)

\* is_compatible: pattern2 is the neighbour in direction dir of pattern1.
is_compatible(pattern1, pattern2, dir) ==
    Overlap(pattern1, pattern2, get_coordinates(dir)[1], get_coordinates(dir)[2])

\* precompute_compatible: for each pattern and direction, the ids of the
\* compatible patterns in increasing order.
precompute_compatible(patterns) ==
    [p \in 0..(Len(patterns) - 1) |->
        [d \in Direction |->
            SortedSeq({q \in 0..(Len(patterns) - 1) :
                          is_compatible(patterns[p + 1], patterns[q + 1], d)})]]

\* The rotation pushed before the reflection.
symmetries_rotated_first(pattern, symmetry) ==
    LET s1 == <<pattern>>
        s2 == IF symmetry > 1 THEN Append(s1, rotated(s1[1])) ELSE s1
        s3 == IF symmetry > 2 THEN Append(s2, reflected(s2[1])) ELSE s2
        s4 == IF symmetry > 2 THEN Append(s3, rotated(s3[3])) ELSE s3
    IN s4

\* The list symmetries that get_patterns builds for one window.
symmetries(pattern, symmetry) ==
    LET s1 == <<pattern>>
        s2 == IF symmetry > 1 THEN Append(s1, reflected(s1[1])) ELSE s1
        s3 == IF symmetry > 2 THEN Append(s2, rotated(s2[1])) ELSE s2
        s4 == IF symmetry > 2 THEN Append(s3, reflected(s3[3])) ELSE s3
        s5 == IF symmetry > 4 THEN Append(s4, rotated(s4[3])) ELSE s4
        s6 == IF symmetry > 4 THEN Append(s5, reflected(s5[5])) ELSE s5
        s7 == IF symmetry > 4 THEN Append(s6, rotated(s6[5])) ELSE s6
        s8 == IF symmetry > 4 THEN Append(s7, reflected(s7[7])) ELSE s7
    IN s8

\* *patterns.entry(symmetry).or_insert(0) += 1, the map being kept as the
\* list of its (pattern, count) entries in the order of their insertion.
Occurence(patterns, symmetry) ==
    IF \E k \in 1..Len(patterns) : patterns[k][1] = symmetry
    THEN [k \in 1..Len(patterns) |->
             IF patterns[k][1] = symmetry
             THEN <<symmetry, patterns[k][2] + 1>> ELSE patterns[k]]
    ELSE Append(patterns, <<symmetry, 1>>)

RECURSIVE Occurences(_, _, _)
\* for symmetry in symmetries { ... }
Occurences(patterns, list, k) ==
    IF k > Len(list) THEN patterns
    ELSE Occurences(Occurence(patterns, list[k]), list, k + 1)

RECURSIVE ScanOrigins(_, _, _, _, _, _, _)
\* for i in 0..max_i { for j in 0..max_j { ... } }, n counting the origins.
ScanOrigins(patterns, input, max_i, max_j, pattern_size, symmetry, n) ==
    IF n >= max_i * max_j THEN patterns
    ELSE LET pattern == get_sub_vec(input, n \div max_j, n % max_j,
                                    pattern_size, pattern_size)
         IN ScanOrigins(Occurences(patterns, symmetries(pattern, symmetry), 1),
                        input, max_i, max_j, pattern_size, symmetry, n + 1)

\* The hash map of get_patterns when the scan is over.
PatternCounts(input, periodic, pattern_size, symmetry) ==
    LET max_i == IF periodic THEN input.height
                 ELSE input.height - pattern_size + 1
        max_j == IF periodic THEN input.width
                 ELSE input.width - pattern_size + 1
    IN ScanOrigins(<<>>, input, max_i, max_j, pattern_size, symmetry, 0)

\* The orders in which the hash map's iterator is taken to hand out n
\* entries: the insertion order and its reverse, each started anywhere.
Orders(n) ==
    IF n = 0 THEN {<<>>}
    ELSE {[k \in 1..n |-> ((k - 1 + r) % n) + 1] : r \in 0..(n - 1)}
         \cup {[k \in 1..n |-> n - ((k - 1 + r) % n)] : r \in 0..(n - 1)}

\* get_patterns: patterns.into_iter().collect(), handed out in order.
get_patterns(input, periodic, pattern_size, symmetry, order) ==
    LET counts == PatternCounts(input, periodic, pattern_size, symmetry)
    IN [k \in 1..Len(counts) |-> counts[order[k]]]

\* A ground pattern taken at the last line whatever the periodic flag.
get_ground_pattern_last_line(input, options) ==
    get_sub_vec(input, input.height - 1,
                (input.width - options.pattern_size) \div 2,
                options.pattern_size, options.pattern_size)

\* get_ground_pattern
get_ground_pattern(input, options) ==
    IF options.periodic_input
    THEN get_sub_vec(input, input.height - 1,
                     (input.width - options.pattern_size) \div 2,
                     options.pattern_size, options.pattern_size)
    ELSE get_sub_vec(input, input.height - options.pattern_size,
                     (input.width - options.pattern_size) \div 2,
                     options.pattern_size, options.pattern_size)

RECURSIVE PinBottomRow(_, _, _, _)
\* for j in 0..width { for p in 0..patterns.len() { if p != ground_id {
\* unset(height - 1, j, p) } } }, n counting the (j, p) pairs.
PinBottomRow(st, n_patterns, ground_id, n) ==
    IF n >= st.width * n_patterns THEN st
    ELSE PinBottomRow(IF n % n_patterns # ground_id
                      THEN unset(st, st.height - 1, n \div n_patterns,
                                 n % n_patterns)
                      ELSE st,
                      n_patterns, ground_id, n + 1)

RECURSIVE PinOtherRows(_, _, _)
\* for i in 0..height-1 { for j in 0..width { unset(i, j, ground_id) } }
PinOtherRows(st, ground_id, n) ==
    IF n >= (st.height - 1) * st.width THEN st
    ELSE PinOtherRows(unset(st, n \div st.width, n % st.width, ground_id),
                      ground_id, n + 1)

\* Only the bottom row is pinned; the ground stays allowed above it.
init_ground_bottom_only(st, patterns, input, options) ==
    LET ground == get_ground_pattern(input, options)
        ground_id == (CHOOSE k \in 1..Len(patterns) :
                         /\ patterns[k] = ground
                         /\ \A l \in 1..(k - 1) : patterns[l] # ground) - 1
    IN PinBottomRow(st, Len(patterns), ground_id, 0)

\* OverlappingWFC::init_ground on the solver st
init_ground(st, patterns, input, options) ==
    LET ground == get_ground_pattern(input, options)
        ground_id == (CHOOSE k \in 1..Len(patterns) :
                         /\ patterns[k] = ground
                         /\ \A l \in 1..(k - 1) : patterns[l] # ground) - 1
    IN PinOtherRows(PinBottomRow(st, Len(patterns), ground_id, 0),
                    ground_id, 0)

\* Every cell rendered from the last line and column of a pattern.
to_image_last_offset(self, output_patterns) ==
    LET pattern_size == self.options.pattern_size
        cell(i) == IF i < pattern_size THEN 0 ELSE i - pattern_size + 1
    IN from_generator(self.options.out_height, self.options.out_width,
           [ij \in Indices(self.options.out_height, self.options.out_width) |->
               At(self.patterns[output_patterns[<<cell(ij[1]),
                                                  cell(ij[2])>>] + 1],
                  pattern_size - 1, pattern_size - 1)])

\* OverlappingWFC::to_image
to_image(self, output_patterns) ==
    LET pattern_size == self.options.pattern_size
        cell(i) == IF i < pattern_size THEN 0 ELSE i - pattern_size + 1
        offset(i) == IF i < pattern_size THEN i ELSE pattern_size - 1
    IN IF self.options.periodic_output
       THEN from_generator(self.options.out_height, self.options.out_width,
                [ij \in Indices(self.options.out_height,
                                self.options.out_width) |->
                    At(self.patterns[output_patterns[ij] + 1], 0, 0)])
       ELSE from_generator(self.options.out_height, self.options.out_width,
                [ij \in Indices(self.options.out_height,
                                self.options.out_width) |->
                    At(self.patterns[output_patterns[<<cell(ij[1]),
                                                       cell(ij[2])>>] + 1],
                       offset(ij[1]), offset(ij[2]))])

\* ------------------------------------------------------------------ tile.rs
\* enum Symmetry
Symmetry == {"X", "I", "Backslash", "T", "L", "P"}

\* Symmetry::nb_of_possible_orientations
nb_of_possible_orientations(symmetry) ==
    CASE symmetry = "X" -> 1
      [] symmetry \in {"I", "Backslash"} -> 2
      [] symmetry \in {"T", "L"} -> 4
      [] symmetry = "P" -> 8

\* generate_rotation_map (entry i of the Vec is element i + 1)
generate_rotation_map(symmetry) ==
    CASE symmetry = "X" -> <<0>>
      [] symmetry \in {"I", "Backslash"} -> <<1, 0>>
      [] symmetry \in {"T", "L"} -> <<1, 2, 3, 0>>
      [] symmetry = "P" -> <<1, 2, 3, 0, 5, 6, 7, 4>>

\* generate_reflection_map
generate_reflection_map(symmetry) ==
    CASE symmetry = "X" -> <<0>>
      [] symmetry = "I" -> <<0, 1>>
      [] symmetry = "Backslash" -> <<1, 0>>
      [] symmetry = "T" -> <<0, 3, 2, 1>>
      [] symmetry = "L" -> <<1, 0, 3, 2>>
      [] symmetry = "P" -> <<4, 7, 6, 5, 0, 3, 2, 1>>

RECURSIVE ActionRow(_, _)
\* action_map[a] as generate_action_map fills it: the identity, the
\* reflection for a = 4, the rotation of the row before otherwise.
ActionRow(symmetry, a) ==
    LET size == Len(generate_rotation_map(symmetry))
    IN IF a = 0 THEN [i \in 0..(size - 1) |-> i]
       ELSE IF a = 4
       THEN [i \in 0..(size - 1) |->
                generate_reflection_map(symmetry)[ActionRow(symmetry, 0)[i] + 1]]
       ELSE [i \in 0..(size - 1) |->
                generate_rotation_map(symmetry)[ActionRow(symmetry, a - 1)[i] + 1]]

\* generate_action_map
generate_action_map(symmetry) == [a \in 0..7 |-> ActionRow(symmetry, a)]

\* generate_oriented
generate_oriented(data, symmetry) ==
    LET r1 == rotated(data)
        r2 == rotated(r1)
        r3 == rotated(r2)
        f0 == reflected(r3)
        f1 == rotated(f0)
        f2 == rotated(f1)
        f3 == rotated(f2)
    IN CASE symmetry = "X" -> <<data>>
         [] symmetry \in {"I", "Backslash"} -> <<data, r1>>
         [] symmetry \in {"T", "L"} -> <<data, r1, r2, r3>>
         [] symmetry = "P" -> <<data, r1, r2, r3, f0, f1, f2, f3>>

\* Tile::new
TileNew(data, symmetry, weight) ==
    [data |-> generate_oriented(data, symmetry),
     symmetry |-> symmetry,
     weight |-> weight]

\* ------------------------------------------------------------ tiling_wfc.rs
RECURSIVE IdToOrientedTile(_, _)
\* id_to_oriented_tile: the pairs (i, j) of tile i + 1 onwards, flattened.
IdToOrientedTile(tiles, i) ==
    IF i >= Len(tiles) THEN <<>>
    ELSE [j \in 1..Len(tiles[i + 1].data) |-> <<i, j - 1>>]
         \o IdToOrientedTile(tiles, i + 1)

RECURSIVE OrientedTileIdsRestarting(_, _, _)
\* The ids of every tile counted from 0.
OrientedTileIdsRestarting(tiles, i, id) ==
    IF i >= Len(tiles) THEN <<>>
    ELSE <<[k \in 1..Len(tiles[i + 1].data) |-> k - 1]>>
         \o OrientedTileIdsRestarting(tiles, i + 1, id)

RECURSIVE OrientedTileIds(_, _, _)
\* oriented_tile_ids: (id..id + len) for each tile, id running on.
OrientedTileIds(tiles, i, id) ==
    IF i >= Len(tiles) THEN <<>>
    ELSE <<[k \in 1..Len(tiles[i + 1].data) |-> id + k - 1]>>
         \o OrientedTileIds(tiles, i + 1, id + Len(tiles[i + 1].data))

\* The ids of a tile do not follow those of the tile before it.
generate_oriented_tile_ids_restarting(tiles) ==
    <<IdToOrientedTile(tiles, 0), OrientedTileIdsRestarting(tiles, 0, 0)>>

\* generate_oriented_tile_ids
generate_oriented_tile_ids(tiles) ==
    <<IdToOrientedTile(tiles, 0), OrientedTileIds(tiles, 0, 0)>>

\* The calls of add for one neighbour entry: the action and its direction.
AddCalls ==
    <<<<0, Right>>, <<1, Down>>, <<2, Left>>, <<3, Up>>,
      <<4, Left>>, <<5, Up>>, <<6, Right>>, <<7, Down>>>>

\* oriented_tile_id1, direction and oriented_tile_id2 in add(action, direction)
Lifted(neighbor, tiles, oriented_tile_ids, action, direction) ==
    LET action_map1 == generate_action_map(tiles[neighbor[1] + 1].symmetry)
        action_map2 == generate_action_map(tiles[neighbor[3] + 1].symmetry)
        temp_orientation1 == action_map1[action][neighbor[2]]
        temp_orientation2 == action_map2[action][neighbor[4]]
    IN <<oriented_tile_ids[neighbor[1] + 1][temp_orientation1 + 1],
         direction,
         oriented_tile_ids[neighbor[3] + 1][temp_orientation2 + 1]>>

\* The entries of dense_propagator that the loop over neighbors sets.
DensePropagator(neighbors, tiles, oriented_tile_ids) ==
    UNION {LET l == Lifted(neighbors[n], tiles, oriented_tile_ids,
                           AddCalls[c][1], AddCalls[c][2])
           IN {<<l[1], l[2], l[3]>>, <<l[3], opposite(l[2]), l[3]>>} :
           n \in 1..Len(neighbors), c \in 1..Len(AddCalls)}

\* generate_propagator
generate_propagator(neighbors, tiles, id_to_oriented_tile, oriented_tile_ids) ==
    LET dense_propagator == DensePropagator(neighbors, tiles, oriented_tile_ids)
        nb_oriented_tiles == Len(id_to_oriented_tile)
    IN [p \in 0..(nb_oriented_tiles - 1) |->
           [d \in Direction |->
               SortedSeq({q \in 0..(nb_oriented_tiles - 1) :
                             <<p, d, q>> \in dense_propagator})]]

RECURSIVE get_tiles_weights(_)
\* get_tiles_weights: the weight of a tile divided by the number of its
\* orientations, once per orientation (weights here divide exactly).
get_tiles_weights(tiles) ==
    IF tiles = <<>> THEN <<>>
    ELSE [k \in 1..Len(tiles[1].data) |->
             tiles[1].weight \div Len(tiles[1].data)]
         \o get_tiles_weights(Tail(tiles))

\* TilingWFC::new up to the call of WFC::new: the id maps, the table and
\* the weights of the oriented tiles.
TilingNew(tiles, neighbors) ==
    LET ids == generate_oriented_tile_ids(tiles)
    IN [id_to_oriented_tiles |-> ids[1],
        oriented_tile_ids |-> ids[2],
        propagator |-> generate_propagator(neighbors, tiles, ids[1], ids[2]),
        weights |-> get_tiles_weights(tiles)]

\* ------------------------------------------------------------------ inputs
\* The values a tie-break draw takes, and the draws of one scan.
RandomValues == {0, 1}

Draws(st) == [1..(st.height * st.width) -> RandomValues]

\* The symmetric compatibility tables over Patterns: the Right lists are a
\* relation rh, the Left lists its converse; Up and Down likewise from rv.
CompatTable(rh, rv) ==
    [p \in Patterns |->
        [d \in Direction |->
            SortedSeq(CASE d = Right -> {q \in Patterns : <<p, q>> \in rh}
                        [] d = Left -> {q \in Patterns : <<q, p>> \in rh}
                        [] d = Up -> {q \in Patterns : <<p, q>> \in rv}
                        [] d = Down -> {q \in Patterns : <<q, p>> \in rv})]]

\* The value of twin in the specifications of a single instance.
NoTwin == [height |-> 0, width |-> 0]

\* The value of front in the specifications of the bare solver.
NoFront == [options |-> "none"]

\* No call of run since construction or the last pin.
NotRun == [status |-> "NotRun", grid |-> <<>>, step |-> "None"]

\* The vertical relations tried with a horizontal relation rh: the same
\* relation, every pair, equal patterns only, and no pair at all.
VerticalRelations(rh) ==
    {rh, Patterns \X Patterns, {<<p, p>> : p \in Patterns}, {}}

Init ==
    /\ \E h \in 1..MaxHeight, w \in 1..MaxWidth, toric \in BOOLEAN,
          weights \in {[p \in Patterns |-> p + 1]},
          rh \in SUBSET (Patterns \X Patterns) :
          \E rv \in VerticalRelations(rh) :
            wfc = new(toric, weights, CompatTable(rh, rv), h, w)
    /\ pc = "idle"
    /\ result = NotRun
    /\ observed = 0
    /\ twin = NoTwin
    /\ front = NoFront

\* wfc.propagator().unset(y, x, pattern): a pin applied by a front-end.
Unset ==
    /\ pc = "idle"
    /\ \E c \in Cells(wfc.height, wfc.width), p \in Patterns :
          wfc' = unset(wfc, c[1], c[2], p)
    /\ result' = NotRun
    /\ observed' = 0
    /\ UNCHANGED <<pc, twin, front>>

\* One iteration of the loop of WFC::run: a call of WFC::step and the match
\* on what it returned.  The first iteration is the call of run.
RunStep ==
    /\ UNCHANGED <<twin, front>>
    /\ \E sel \in {[status |-> s.status, cell |-> s.cell] :
                   s \in {get_min_entropy(wfc, rnd) : rnd \in Draws(wfc)}} :
        \/ /\ sel.status = "Ok"
           /\ \E p \in {chosen_pattern(wfc, sel.cell[1], sel.cell[2], r) :
                           r \in 0..(SampleRange - 1)} :
                 /\ wfc' = Observe(wfc, sel.cell[1], sel.cell[2], p)
                 /\ result' = [status |-> "Running", grid |-> <<>>,
                               step |-> "Ok", cell |-> sel.cell,
                               chosen_pattern |-> p]
           /\ pc' = "run"
           /\ observed' = IF pc = "idle" THEN 1 ELSE observed + 1
        \/ /\ sel.status = "Impossible"
           /\ pc' = "idle"
           /\ result' = [status |-> "None", grid |-> <<>>, step |-> "Impossible"]
           /\ observed' = IF pc = "idle" THEN 0 ELSE observed
           /\ UNCHANGED wfc
        \/ /\ sel.status = "Finished"
           /\ pc' = "idle"
           /\ result' = [status |-> to_output(wfc).status,
                         grid |-> to_output(wfc).grid, step |-> "Finished"]
           /\ observed' = IF pc = "idle" THEN 0 ELSE observed
           /\ UNCHANGED wfc

\* restart was the last call; no call of run since.
Restarted == [status |-> "NotRun", grid |-> <<>>, step |-> "Restarted"]

\* WFC::restart(seed); the count of the steps of the last run is kept.
Restart ==
    /\ pc = "idle"
    /\ wfc' = restart(wfc)
    /\ result' = Restarted
    /\ UNCHANGED <<pc, observed, twin, front>>

Next == Unset \/ RunStep \/ Restart

Spec == Init /\ [][Next]_vars

\* An iteration of the loop of WFC::run after the first.
RunLoop == pc = "run" /\ RunStep

\* The loop of WFC::run goes on until step returns an error: nothing else
\* runs between two of its iterations.  This is weak fairness of RunLoop,
\* written out: RunLoop can take a step exactly when pc = "run", since
\* get_min_entropy returns a value in every state and each of the three
\* branches changes pc or observed.
SpecFair ==
    Spec /\ ([]<>(pc # "run") \/ []<><<RunLoop>>_vars)

\* --------------------------------------------------- the wave on its own
\* A wave of NumWavePatterns patterns with any weights of 1..MaxWeight, and
\* direct calls of Wave::unset, Wave::reset and Wave::get_min_entropy.
WavePatterns == 0..(NumWavePatterns - 1)

NoCompat == [p \in WavePatterns |-> [d \in Direction |-> <<>>]]

InitWave ==
    /\ \E h \in 1..MaxHeight, w \in 1..MaxWidth,
          weights \in [WavePatterns -> 1..MaxWeight] :
            wfc = new(FALSE, weights, NoCompat, h, w)
    /\ pc = "idle"
    /\ result = NotRun
    /\ observed = 0
    /\ twin = NoTwin
    /\ front = NoFront

\* Wave::unset(i, j, pattern), also of a pattern already banned
WaveUnsetCall ==
    /\ \E c \in Cells(wfc.height, wfc.width), p \in WavePatterns :
          wfc' = WaveUnset(wfc, c[1], c[2], p)
    /\ result' = NotRun
    /\ UNCHANGED <<pc, observed, twin, front>>

\* Wave::reset()
WaveResetCall ==
    /\ wfc' = WaveReset(wfc)
    /\ result' = NotRun
    /\ UNCHANGED <<pc, observed, twin, front>>

\* Wave::get_min_entropy(rng): the wave is not changed, the result is kept.
GetMinEntropyCall ==
    /\ \E sel \in {[status |-> s.status, cell |-> s.cell] :
                     s \in {get_min_entropy(wfc, rnd) : rnd \in Draws(wfc)}} :
          result' = [status |-> sel.status, grid |-> sel.cell, step |-> "Selector"]
    /\ UNCHANGED <<wfc, pc, observed, twin, front>>

NextWave == WaveUnsetCall \/ WaveResetCall \/ GetMinEntropyCall

SpecWave == InitWave /\ [][NextWave]_vars

\* ------------------------------------------------ the queue served in order
RECURSIVE propagate_fifo(_)
\* The loop of propagate with the queue served from its front.
propagate_fifo(st) ==
    IF st.propagating_queue = <<>> THEN st
    ELSE LET item == Head(st.propagating_queue)
             popped == [st EXCEPT !.propagating_queue = Tail(@)]
         IN propagate_fifo(PropagateDirections(popped, item[1], item[2], item[3], 1))

\* Propagator::unset over the queue served from its front.
unset_fifo(st, y, x, pattern) ==
    IF WaveGet(st, y, x, pattern)
    THEN LET un == WaveUnset(st, y, x, pattern)
             pushed == [un EXCEPT !.compatible[<<y, x>>][pattern] =
                                      [e \in Direction |-> 0],
                                  !.propagating_queue =
                                      Append(@, <<y, x, pattern>>)]
         IN propagate_fifo(pushed)
    ELSE st

\* The solver as implemented and a twin whose queue is served first in,
\* first out, built alike and given the same calls.
InitQueue ==
    /\ \E h \in 1..MaxHeight, w \in 1..MaxWidth, toric \in BOOLEAN,
          weights \in {[p \in Patterns |-> p + 1]},
          rh \in SUBSET (Patterns \X Patterns) :
          \E rv \in VerticalRelations(rh) :
            /\ wfc = new(toric, weights, CompatTable(rh, rv), h, w)
            /\ twin = new(toric, weights, CompatTable(rh, rv), h, w)
    /\ pc = "idle"
    /\ result = NotRun
    /\ observed = 0
    /\ front = NoFront

UnsetBoth ==
    /\ \E c \in Cells(wfc.height, wfc.width), p \in Patterns :
          /\ wfc' = unset(wfc, c[1], c[2], p)
          /\ twin' = unset_fifo(twin, c[1], c[2], p)
    /\ UNCHANGED <<pc, result, observed, front>>

ResetBoth ==
    /\ wfc' = reset(wfc)
    /\ twin' = reset(twin)
    /\ UNCHANGED <<pc, result, observed, front>>

NextQueue == UnsetBoth \/ ResetBoth

SpecQueue == InitQueue /\ [][NextQueue]_vars

\* ------------------------------------------------ the grid transforms alone
\* The value of wfc in the specifications that build no solver.
NoSolver == [height |-> 0, width |-> 0]

Symbols == 0..(NumSymbols - 1)

\* The square grids of side n over Symbols.
SquareGrids(n) == {from_vec(data, n, n) : data \in [1..(n * n) -> Symbols]}

\* Every Vec2D of at most MaxGridSide lines and columns, the empty ones
\* (no line, or no column) included.
InitGrid ==
    /\ \E h \in 0..MaxGridSide, w \in 0..MaxGridSide :
          \E data \in [1..(h * w) -> Symbols] :
            front = from_vec(data, h, w)
    /\ pc = "idle"
    /\ result = NotRun
    /\ observed = 0
    /\ wfc = NoSolver
    /\ twin = NoTwin

\* g = g.reflected()
ReflectedCall ==
    /\ front' = reflected(front)
    /\ pc' = "reflected"
    /\ UNCHANGED <<wfc, result, observed, twin>>

\* g = g.rotated()
RotatedCall ==
    /\ front' = rotated(front)
    /\ pc' = "rotated"
    /\ UNCHANGED <<wfc, result, observed, twin>>

NextGrid == ReflectedCall \/ RotatedCall

SpecGrid == InitGrid /\ [][NextGrid]_vars

\* ------------------------------------------- precompute_compatible alone
\* Every list of at most MaxListed patterns of one side.
InitCompatible ==
    /\ \E n \in 1..MaxPatternSize, len \in 1..MaxListed :
          \E patterns \in [1..len -> SquareGrids(n)] :
            front = [patterns |-> patterns]
    /\ pc = "idle"
    /\ result = NotRun
    /\ observed = 0
    /\ wfc = NoSolver
    /\ twin = NoTwin

\* precompute_compatible(&patterns)
PrecomputeCompatibleCall ==
    /\ pc = "idle"
    /\ result' = precompute_compatible(front.patterns)
    /\ pc' = "compatible"
    /\ UNCHANGED <<wfc, observed, twin, front>>

NextCompatible == PrecomputeCompatibleCall

SpecCompatible == InitCompatible /\ [][NextCompatible]_vars

\* ---------------------------------------------------- get_patterns alone
\* The values of the option symmetry that get_patterns supports.
SupportedSymmetry == {1, 2, 4, 8}

\* Every input of at most MaxInputSide lines and columns and MaxInputCells
\* cells, with a pattern size that fits in it.
InitPatterns ==
    /\ \E h \in 1..MaxInputSide, w \in 1..MaxInputSide, periodic \in BOOLEAN,
          symmetry \in SupportedSymmetry :
          \E data \in [1..(IF h * w <= MaxInputCells THEN h * w ELSE 0) -> Symbols],
             pattern_size \in {n \in 1..MaxPatternSize :
                                  n <= h /\ n <= w /\ h * w <= MaxInputCells} :
            front = [input |-> from_vec(data, h, w),
                     options |-> [periodic_input |-> periodic,
                                  pattern_size |-> pattern_size,
                                  symmetry |-> symmetry]]
    /\ pc = "idle"
    /\ result = NotRun
    /\ observed = 0
    /\ wfc = NoSolver
    /\ twin = NoTwin

\* get_patterns(&input, periodic, pattern_size, symmetry)
GetPatternsCall ==
    /\ pc = "idle"
    /\ \E order \in Orders(Len(PatternCounts(front.input,
                                               front.options.periodic_input,
                                               front.options.pattern_size,
                                               front.options.symmetry))) :
          result' = get_patterns(front.input, front.options.periodic_input,
                                 front.options.pattern_size,
                                 front.options.symmetry, order)
    /\ pc' = "patterns"
    /\ UNCHANGED <<wfc, observed, twin, front>>

NextPatterns == GetPatternsCall

SpecPatterns == InitPatterns /\ [][NextPatterns]_vars

\* ---------------------------------------------- the overlapping front-end
\* The draws of one scan that select every cell a scan can select: no draw
\* below the others, or one such draw at any position.
TieBreakDraws(st) ==
    {[k \in 1..(st.height * st.width) |-> IF k = low THEN 0 ELSE 1] :
        low \in 0..(st.height * st.width)}

\* The patterns WeightedIndex::sample can return at the cell (y, x).
SampledPatterns(st, y, x) ==
    LET ws == StepWeights(st, y, x)
        total == Cumulative(ws, Cardinality(DOMAIN ws) - 1)
    IN {WeightedSample(ws, u) : u \in 0..(total - 1)}

\* The scenario S1: the 3x3 checkerboard extended to 4x4.
Checkerboard == from_vec(<<0, 1, 0, 1, 0, 1, 0, 1, 0>>, 3, 3)

CheckerboardOptions ==
    [periodic_input |-> FALSE, periodic_output |-> FALSE, out_height |-> 4,
     out_width |-> 4, symmetry |-> 1, pattern_size |-> 2, ground |-> FALSE]

\* The outputs tried: at most MaxOutSide lines and columns and MaxOutCells
\* cells, and room for a pattern.
OutputShapes ==
    {v \in (MaxPatternSize..MaxOutSide) \X (MaxPatternSize..MaxOutSide) :
        v[1] * v[2] <= MaxOutCells}

\* The inputs and options tried, with patterns of side MaxPatternSize: the
\* scenario S1; every square input of that side whose first symbol is 0;
\* and, periodic and with its ground pinned, every input of MaxInputSide
\* lines of that width whose first symbol is 0.
OverlappingInputs ==
    {<<Checkerboard, CheckerboardOptions>>}
    \cup {<<from_vec(data, MaxInputSide, MaxPatternSize),
            [periodic_input |-> TRUE, periodic_output |-> pout,
             out_height |-> out[1], out_width |-> out[2], symmetry |-> 1,
             pattern_size |-> MaxPatternSize, ground |-> TRUE]>> :
            data \in {v \in [1..(MaxInputSide * MaxPatternSize) -> Symbols] :
                         v[1] = 0},
            pout \in BOOLEAN, out \in OutputShapes}
    \cup {<<input,
            [periodic_input |-> pin, periodic_output |-> pout,
             out_height |-> out[1], out_width |-> out[2], symmetry |-> 1,
             pattern_size |-> MaxPatternSize, ground |-> ground]>> :
            input \in {g \in SquareGrids(MaxPatternSize) : g.data[1] = 0},
            pin \in BOOLEAN, pout \in BOOLEAN, ground \in BOOLEAN,
            out \in OutputShapes}

\* The state after OverlappingWFC::new(input, options, seed), statement by
\* statement, the hash map having handed out the patterns in the order of
\* their insertion, in the reverse order, or in one of these orders turned
\* by one place.
InitOverlapping ==
    /\ \E io \in OverlappingInputs :
        \E counts \in {PatternCounts(io[1], io[2].periodic_input,
                                     io[2].pattern_size, io[2].symmetry)} :
        \E order \in {o \in Orders(Len(counts)) : o[1] \in {1, Len(o)}} :
        \E patterns \in {[k \in 1..Len(counts) |-> counts[order[k]][1]]} :
        \E weights \in {[p \in 0..(Len(counts) - 1) |->
                            counts[order[p + 1]][2]]} :
        \E compatible \in {precompute_compatible(patterns)} :
        \E solver \in {new(io[2].periodic_output, weights, compatible,
                           io[2].out_height, io[2].out_width)} :
            /\ wfc = IF io[2].ground
                     THEN init_ground(solver, patterns, io[1], io[2])
                     ELSE solver
            /\ front = [options |-> io[2], patterns |-> patterns,
                        input |-> io[1]]
    /\ pc = "idle"
    /\ result = NotRun
    /\ observed = 0
    /\ twin = NoTwin

\* One iteration of the loop of WFC::run inside OverlappingWFC::run; when
\* the loop ends with Some(patterns), to_image renders them.
OverlappingRunStep ==
    /\ result.status \in {"NotRun", "Running"}
    /\ UNCHANGED <<twin, front>>
    /\ \E sel \in {[status |-> s.status, cell |-> s.cell] :
                   s \in {get_min_entropy(wfc, rnd) : rnd \in TieBreakDraws(wfc)}} :
        \/ /\ sel.status = "Ok"
           /\ \E p \in SampledPatterns(wfc, sel.cell[1], sel.cell[2]) :
                 wfc' = Observe(wfc, sel.cell[1], sel.cell[2], p)
           /\ pc' = "run"
           /\ result' = [status |-> "Running", grid |-> <<>>, step |-> "Ok"]
           /\ observed' = observed + 1
        \/ /\ sel.status = "Impossible"
           /\ pc' = "idle"
           /\ result' = [status |-> "None", grid |-> <<>>, step |-> "Impossible"]
           /\ UNCHANGED <<wfc, observed>>
        \/ /\ sel.status = "Finished"
           /\ pc' = "idle"
           /\ result' = [status |-> to_output(wfc).status,
                         grid |-> to_output(wfc).grid,
                         step |-> "Finished",
                         image |-> IF to_output(wfc).status = "Some"
                                   THEN to_image(front, to_output(wfc).grid)
                                   ELSE <<>>]
           /\ UNCHANGED <<wfc, observed>>

NextOverlapping == OverlappingRunStep

SpecOverlapping == InitOverlapping /\ [][NextOverlapping]_vars

\* ------------------------------------------------------- Tile::new alone
\* Every content of at most MaxTileSide lines and columns, every symmetry.
InitTile ==
    /\ \E h \in 1..MaxTileSide, w \in 1..MaxTileSide, symmetry \in Symmetry :
          \E data \in [1..(h * w) -> Symbols] :
            front = [data |-> from_vec(data, h, w), symmetry |-> symmetry,
                     weight |-> 8]
    /\ pc = "idle"
    /\ result = NotRun
    /\ observed = 0
    /\ wfc = NoSolver
    /\ twin = NoTwin

\* Tile::new(data, symmetry, weight)
TileNewCall ==
    /\ pc = "idle"
    /\ result' = TileNew(front.data, front.symmetry, front.weight)
    /\ pc' = "tile"
    /\ UNCHANGED <<wfc, observed, twin, front>>

NextTile == TileNewCall

SpecTile == InitTile /\ [][NextTile]_vars

\* ------------------------------------------------ the tiling front-end
\* The tile weights: the multiples of 8, which every number of
\* orientations divides.
TileWeights == {8 * k : k \in 1..MaxTileWeight}

\* The neighbour entries (tile1, orientation1, tile2, orientation2) that
\* name tiles and orientations that exist.
NeighborEntries(tiles) ==
    {<<t1, o1, t2, o2>> :
        t1 \in 0..(Len(tiles) - 1), o1 \in 0..7,
        t2 \in 0..(Len(tiles) - 1), o2 \in 0..7}
    \cap {e \in (0..(Len(tiles) - 1)) \X (0..7) \X (0..(Len(tiles) - 1)) \X (0..7) :
             /\ e[2] < Len(tiles[e[1] + 1].data)
             /\ e[4] < Len(tiles[e[3] + 1].data)}

\* At most MaxTiles tiles of any symmetry, tile t with the content [[t]],
\* and at most MaxNeighbors neighbour entries.
InitTiling ==
    /\ \E n_tiles \in 1..MaxTiles, n_neighbors \in 0..MaxNeighbors :
          \E symmetry \in [1..n_tiles -> Symmetry],
             weight \in [1..n_tiles -> TileWeights] :
            LET tiles == [t \in 1..n_tiles |->
                             TileNew(from_vec(<<t - 1>>, 1, 1),
                                     symmetry[t], weight[t])]
            IN \E neighbors \in [1..n_neighbors -> NeighborEntries(tiles)] :
                 front = [tiles |-> tiles, neighbors |-> neighbors]
    /\ pc = "idle"
    /\ result = NotRun
    /\ observed = 0
    /\ wfc = NoSolver
    /\ twin = NoTwin

\* TilingWFC::new(tiles, neighbors, ...)
TilingNewCall ==
    /\ pc = "idle"
    /\ result' = TilingNew(front.tiles, front.neighbors)
    /\ pc' = "tiling"
    /\ UNCHANGED <<wfc, observed, twin, front>>

NextTiling == TilingNewCall

SpecTiling == InitTiling /\ [][NextTiling]_vars

\* ------------------------------------------------------ the directions alone
\* A walk on the cells 0..MaxWalk x 0..MaxWalk: front holds a direction, the
\* cell the walk started from, the cell it is at, and whether opposite was
\* the last call but one.
WalkCells == (0..MaxWalk) \X (0..MaxWalk)

InitDirection ==
    /\ \E d \in Direction, c \in WalkCells :
          front = [direction |-> d, start |-> c, at |-> c, turned |-> FALSE]
    /\ pc = "idle"
    /\ result = NotRun
    /\ observed = 0
    /\ wfc = NoSolver
    /\ twin = NoTwin

\* direction = direction.opposite()
OppositeCall ==
    /\ front' = [front EXCEPT !.direction = opposite(@), !.turned = TRUE]
    /\ pc' = "opposite"
    /\ UNCHANGED <<wfc, result, observed, twin>>

\* (dy, dx) = direction.get_coordinates(), and the step to the cell
\* (y + dy, x + dx) when the grid has it, as propagate takes it.
GetCoordinatesCall ==
    /\ result' = get_coordinates(front.direction)
    /\ front' = [front EXCEPT
                    !.at = IF <<@[1] + result'[1], @[2] + result'[2]>>
                              \in WalkCells
                           THEN <<@[1] + result'[1], @[2] + result'[2]>>
                           ELSE @,
                    !.turned = (pc = "opposite")]
    /\ pc' = "coordinates"
    /\ UNCHANGED <<wfc, observed, twin>>

NextDirection == OppositeCall \/ GetCoordinatesCall

SpecDirection == InitDirection /\ [][NextDirection]_vars

\* ------------------------------------------- propagate one triple at a time
\* Propagator::unset and Propagator::propagate with one action per
\* iteration of the loop "while let Some(..) = propagating_queue.pop()".
\* pc is "propagate" inside the loop; result names the last call and tells
\* whether its pattern was allowed; twin counts, triple by triple, the
\* pushes onto the queue since construction or the last reset, and observed
\* is their number.
NoPush(st) ==
    [t \in Cells(st.height, st.width) \X DOMAIN st.patterns_weights |-> 0]

RECURSIVE CountPushes(_, _, _)
\* The counts after the triples list[k], list[k + 1], ... were pushed.
CountPushes(counts, list, k) ==
    IF k > Len(list) THEN counts
    ELSE CountPushes([counts EXCEPT ![<<<<list[k][1], list[k][2]>>,
                                        list[k][3]>>] = @ + 1],
                     list, k + 1)

\* The ban of unset without "compatible[y][x][pattern] = [0; 4]".
UnsetPushKeepCounters(st, y, x, pattern) ==
    [WaveUnset(st, y, x, pattern) EXCEPT
        !.propagating_queue = Append(@, <<y, x, pattern>>)]

\* The body of Propagator::unset up to the call of propagate.
UnsetPush(st, y, x, pattern) ==
    [WaveUnset(st, y, x, pattern) EXCEPT
        !.compatible[<<y, x>>][pattern] = [e \in Direction |-> 0],
        !.propagating_queue = Append(@, <<y, x, pattern>>)]

\* An iteration that serves the last triple and leaves it in the queue.
PropagateIterationNoPop(st) ==
    LET q == st.propagating_queue
        item == q[Len(q)]
    IN PropagateDirections(st, item[1], item[2], item[3], 1)

\* One iteration of the loop of propagate: the last triple is popped and
\* its four neighbours are served.
PropagateIteration(st) ==
    LET q == st.propagating_queue
        item == q[Len(q)]
        popped == [st EXCEPT !.propagating_queue = SubSeq(q, 1, Len(q) - 1)]
    IN PropagateDirections(popped, item[1], item[2], item[3], 1)

InitPropagate ==
    /\ \E h \in 1..MaxHeight, w \in 1..MaxWidth, toric \in BOOLEAN,
          weights \in {[p \in Patterns |-> p + 1]},
          rh \in SUBSET (Patterns \X Patterns) :
          \E rv \in VerticalRelations(rh) :
            /\ wfc = new(toric, weights, CompatTable(rh, rv), h, w)
            /\ twin = NoPush(wfc)
    /\ pc = "idle"
    /\ result = [call |-> "new", was_allowed |-> FALSE]
    /\ observed = 0
    /\ front = NoFront

\* The call of Propagator::unset(y, x, pattern) up to its call of propagate,
\* or the whole call when the pattern is banned already.
UnsetCall ==
    /\ pc = "idle"
    /\ \E c \in Cells(wfc.height, wfc.width), p \in Patterns :
          IF WaveGet(wfc, c[1], c[2], p)
          THEN /\ wfc' = UnsetPush(wfc, c[1], c[2], p)
               /\ twin' = CountPushes(twin, <<<<c[1], c[2], p>>>>, 1)
               /\ observed' = observed + 1
               /\ result' = [call |-> "unset", was_allowed |-> TRUE]
               /\ pc' = "propagate"
          ELSE /\ result' = [call |-> "unset", was_allowed |-> FALSE]
               /\ UNCHANGED <<wfc, twin, observed, pc>>
    /\ UNCHANGED front

\* One iteration of the loop of propagate.
PropagateStep ==
    /\ pc = "propagate"
    /\ wfc.propagating_queue # <<>>
    /\ wfc' = PropagateIteration(wfc)
    /\ LET pushed == SubSeq(wfc'.propagating_queue,
                            Len(wfc.propagating_queue),
                            Len(wfc'.propagating_queue))
       IN /\ twin' = CountPushes(twin, pushed, 1)
          /\ observed' = observed + Len(pushed)
    /\ UNCHANGED <<pc, result, front>>

\* pop returns None: propagate and unset return.
PropagateReturn ==
    /\ pc = "propagate"
    /\ wfc.propagating_queue = <<>>
    /\ pc' = "idle"
    /\ UNCHANGED <<wfc, result, observed, twin, front>>

\* Propagator::reset()
ResetCall ==
    /\ pc = "idle"
    /\ wfc' = reset(wfc)
    /\ twin' = NoPush(wfc)
    /\ observed' = 0
    /\ result' = [call |-> "reset", was_allowed |-> FALSE]
    /\ UNCHANGED <<pc, front>>

NextPropagate == UnsetCall \/ PropagateStep \/ PropagateReturn \/ ResetCall

SpecPropagate == InitPropagate /\ [][NextPropagate]_vars

\* The loop of propagate, and the return that ends it.
PropagateLoop == PropagateStep \/ PropagateReturn

\* The loop of propagate goes on while it can: the program is sequential
\* and nothing else runs once unset has been called.  This is weak fairness
\* of PropagateLoop, written out: PropagateLoop can take a step exactly
\* when pc = "propagate", with PropagateStep while the queue holds a triple
\* and PropagateReturn once it is empty.
SpecPropagateFair ==
    SpecPropagate /\ ([]<>(pc # "propagate") \/ []<><<PropagateLoop>>_vars)

\* ------------------------------------------------------------------ claims
\* The patterns still allowed at cell c.
Allowed(st, c) == {p \in DOMAIN st.patterns_weights : st.data[c][p]}

AllCells == Cells(wfc.height, wfc.width)

\* The neighbour of cell c in direction d exists.
HasNeighbor(c, d) == Neighbor(wfc, c[1], c[2], d)[1]

NeighborCell(c, d) ==
    <<Neighbor(wfc, c[1], c[2], d)[2], Neighbor(wfc, c[1], c[2], d)[3]>>

compat(p, d) == SeqToSet(wfc.patterns_compatibility[p][d])

\* C1: when run returns Some(grid), every cell holds one pattern and for
\* every cell and every direction whose neighbour exists the neighbour's
\* pattern is in compat[grid[y][x]][d].
C1_OutputRespectsCompatibility ==
    (pc = "idle" /\ result.status = "Some") =>
        \A c \in AllCells, d \in Direction :
            HasNeighbor(c, d) =>
                result.grid[NeighborCell(c, d)] \in compat(result.grid[c], d)

\* C2: after unset returns, every pattern p still allowed at a cell has, in
\* every direction d whose neighbour exists, a pattern q allowed at that
\* neighbour with q in compat[p][d].
C2_ArcConsistent ==
    (\E c \in AllCells : Allowed(wfc, c) # DOMAIN wfc.patterns_weights) =>
        \A c \in AllCells, d \in Direction :
            \A p \in Allowed(wfc, c) :
                HasNeighbor(c, d) =>
                    Allowed(wfc, NeighborCell(c, d)) \cap compat(p, d) # {}

\* C3: whenever the queue is empty, the counter compatible[y][x][p][d] of a
\* pattern p still allowed at (y,x) is the number of patterns q allowed at
\* the neighbour in direction d with q in compat[p][d].
C3_CounterIsSupportInDirection ==
    wfc.propagating_queue = <<>> =>
        \A c \in AllCells, d \in Direction :
            \A p \in Allowed(wfc, c) :
                HasNeighbor(c, d) =>
                    wfc.compatible[c][p][d] =
                        Cardinality(Allowed(wfc, NeighborCell(c, d)) \cap compat(p, d))

\* C4: between two resets a pattern that is banned at a cell stays banned
\* under every unset and every step; only a reset allows it again.
C4_MonotoneWave ==
    [][wfc' = reset(wfc)
       \/ \A c \in AllCells, p \in Patterns :
             ~WaveGet(wfc, c[1], c[2], p) => ~WaveGet(wfc', c[1], c[2], p)]_vars

C4_Witness ==
    /\ pc = "run"
    /\ observed >= 2
    /\ \E c \in AllCells : Allowed(wfc, c) = {}

\* C9: run returns None exactly when a cell has no allowed pattern, and
\* otherwise Some(grid) with grid[i][j] the single pattern allowed at (i,j).
C9_RunResult ==
    (pc = "idle" /\ result.status # "NotRun") =>
        /\ result.status \in {"None", "Some"}
        /\ result.status = "None" <=> \E c \in AllCells : Allowed(wfc, c) = {}
        /\ result.status = "None" <=> result.step = "Impossible"
        /\ result.status = "Some" =>
               \A c \in AllCells : Allowed(wfc, c) = {result.grid[c]}

C9_Witness ==
    /\ pc = "idle"
    /\ result.status = "Some"
    /\ observed >= 2
    /\ \E c, e \in AllCells : result.grid[c] # result.grid[e]

\* The two patterns are in none of each other's lists.
MutuallyIncompatible ==
    \A d \in Direction : 1 \notin compat(0, d) /\ 0 \notin compat(1, d)

\* Pattern 0 is forced at a cell and pattern 1 at a cell next to it.
ForcedApart ==
    \E c \in AllCells, d \in Direction :
        /\ HasNeighbor(c, d)
        /\ ~WaveGet(wfc, c[1], c[2], 1)
        /\ ~WaveGet(wfc, NeighborCell(c, d)[1], NeighborCell(c, d)[2], 0)

\* C10: with two mutually incompatible patterns forced into adjacent cells
\* by unset, run returns None on its first step, observing no cell.
C10_ContradictionOnFirstStep ==
    [][(/\ pc = "idle"
        /\ result.status = "NotRun"
        /\ MutuallyIncompatible
        /\ ForcedApart
        /\ result'.status # "NotRun")
       => (pc' = "idle" /\ result'.status = "None" /\ observed' = 0)]_vars

\* C5: after any sequence of unset calls the wave is the same whether the
\* queue of propagate is served last in first out or first in first out.
C5_QueueOrderSameWave ==
    wfc.data = twin.data

\* The two orders left different counters behind and a cell was emptied.
C5_Witness ==
    /\ wfc.compatible # twin.compatible
    /\ \E c \in AllCells : Allowed(wfc, c) = {}

RECURSIVE SumOver(_, _)
\* The sum of f over the finite set S.
SumOver(f, S) ==
    IF S = {} THEN 0
    ELSE LET a == CHOOSE b \in S : TRUE IN f[a] + SumOver(f, S \ {a})

\* C7: in every cell the memoized n_patterns is the number of allowed
\* patterns (never below 0) and the memoized sum is the sum of their weights.
C7_MemoMatchesAllowSet ==
    \A c \in AllCells :
        /\ wfc.entropy_memoization[c].n_patterns = Cardinality(Allowed(wfc, c))
        /\ wfc.entropy_memoization[c].n_patterns >= 0
        /\ wfc.entropy_memoization[c].sum =
               SumOver(wfc.patterns_weights, Allowed(wfc, c))

\* One cell was emptied by unset calls while another still allows two
\* patterns, and the selector was called.
C7_Witness ==
    /\ \E c \in AllCells : Allowed(wfc, c) = {}
    /\ \E c \in AllCells : Cardinality(Allowed(wfc, c)) = 2
    /\ result.step = "Selector"

\* The entropy of the allow-set S, from the weights: ln(sum) - (sum of
\* w ln w) / sum as the fraction <<numerator, denominator>>.
EntropyOfSet(S) ==
    LET sum == SumOver(wfc.patterns_weights, S)
        plogp == SumOver([p \in S |-> wfc.patterns_weights[p]
                                         * ln(wfc.patterns_weights[p])], S)
    IN <<ln(sum) * sum - plogp, sum>>

FractionLeq(a, b) == a[1] * b[2] <= b[1] * a[2]

Undecided == {c \in AllCells : Cardinality(Allowed(wfc, c)) >= 2}

\* C8: get_min_entropy returns Impossible iff some cell has no allowed
\* pattern; otherwise Finished iff every cell has exactly one; otherwise a
\* cell with at least two allowed patterns whose entropy is at most that of
\* every other such cell.
C8_SelectorResult ==
    result.step = "Selector" =>
        /\ result.status = "Impossible" <=> \E c \in AllCells : Allowed(wfc, c) = {}
        /\ (\A c \in AllCells : Allowed(wfc, c) # {}) =>
               (result.status = "Finished" <=> Undecided = {})
        /\ ((\A c \in AllCells : Allowed(wfc, c) # {}) /\ Undecided # {}) =>
               /\ result.status = "Ok"
               /\ result.grid \in Undecided
               /\ \A e \in Undecided :
                      FractionLeq(EntropyOfSet(Allowed(wfc, result.grid)),
                                  EntropyOfSet(Allowed(wfc, e)))

\* The selected cell is not the first scanned and another undecided cell
\* has a strictly larger entropy.
C8_Witness ==
    /\ result.step = "Selector"
    /\ result.status = "Ok"
    /\ result.grid # <<0, 0>>
    /\ Cardinality(Allowed(wfc, <<0, 0>>)) >= 2
    /\ ~FractionLeq(EntropyOfSet(Allowed(wfc, <<0, 0>>)),
                    EntropyOfSet(Allowed(wfc, result.grid)))

\* C13: after restart, whatever unset, step and run calls came before, the
\* wave, the entropy memo, the support counters and the queue are those of
\* WFC::new called with the same weights, table, dimensions and toric flag.
C13_RestartEqualsConstruction ==
    result = Restarted =>
        wfc = new(wfc.is_toric, wfc.patterns_weights,
                  wfc.patterns_compatibility, wfc.height, wfc.width)

\* restart was called after a run that observed two cells.
C13_Witness ==
    /\ result = Restarted
    /\ observed >= 2

\* C20: for every Vec2D g, empty ones included, reflecting twice gives g,
\* rotating four times gives g, reflected(rotated(g)) is reflected(g) rotated
\* three times, and rotated(g) has g's width as height and g's height as
\* width with out[y][x] = g[x][width-1-y].
C20_GridTransformLaws ==
    /\ reflected(reflected(front)) = front
    /\ rotated(rotated(rotated(rotated(front)))) = front
    /\ reflected(rotated(front)) = rotated(rotated(rotated(reflected(front))))
    /\ rotated(front).height = front.width
    /\ rotated(front).width = front.height
    /\ \A y \in 0..(front.width - 1), x \in 0..(front.height - 1) :
          At(rotated(front), y, x) = At(front, x, front.width - 1 - y)

\* A grid that is not square and is neither its own reflection nor its own
\* half turn was obtained by a rotation.
C20_Witness ==
    /\ pc = "rotated"
    /\ front.height # front.width
    /\ front.data # <<>>
    /\ reflected(front) # front
    /\ rotated(rotated(front)) # front

\* C14: for every list of square patterns of one size, all p, q and every
\* direction d, q is in precompute_compatible(patterns)[p][d] exactly when
\* p is in precompute_compatible(patterns)[q][opposite(d)], and
\* is_compatible(a, b, d) = is_compatible(b, a, opposite(d)).
C14_OverlappingCompatibilitySymmetric ==
    pc = "compatible" =>
        \A p, q \in DOMAIN result, d \in Direction :
            /\ q \in SeqToSet(result[p][d])
                  <=> p \in SeqToSet(result[q][opposite(d)])
            /\ is_compatible(front.patterns[p + 1], front.patterns[q + 1], d)
                  <=> is_compatible(front.patterns[q + 1],
                                    front.patterns[p + 1], opposite(d))

\* Two patterns of side 2, the second compatible with the first on one side
\* and not on the opposite side.
C14_Witness ==
    /\ pc = "compatible"
    /\ \E p, q \in DOMAIN result, d \in Direction :
          /\ p # q
          /\ front.patterns[p + 1].height = 2
          /\ q \in SeqToSet(result[p][d])
          /\ q \notin SeqToSet(result[p][opposite(d)])

\* The origins the claim C18 names.
C18_Origins ==
    IF front.options.periodic_input
    THEN (0..(front.input.height - 1)) \X (0..(front.input.width - 1))
    ELSE (0..(front.input.height - front.options.pattern_size))
         \X (0..(front.input.width - front.options.pattern_size))

\* The variant v of the window at origin o, out of the list the claim names.
C18_Variant(o, v) ==
    LET P0 == from_generator(front.options.pattern_size,
                             front.options.pattern_size,
                  [d \in Indices(front.options.pattern_size,
                                 front.options.pattern_size) |->
                      At(front.input, (o[1] + d[1]) % front.input.height,
                                      (o[2] + d[2]) % front.input.width)])
    IN CASE v = 1 -> P0
         [] v = 2 -> reflected(P0)
         [] v = 3 -> rotated(P0)
         [] v = 4 -> reflected(rotated(P0))
         [] v = 5 -> rotated(rotated(P0))
         [] v = 6 -> reflected(rotated(rotated(P0)))
         [] v = 7 -> rotated(rotated(rotated(P0)))
         [] v = 8 -> reflected(rotated(rotated(rotated(P0))))

\* C18: get_patterns returns every distinct variant of a window once, with
\* the number of (origin, variant) pairs that produce it, the variants of
\* an origin being the first `symmetry` of P0, reflect(P0), rotate(P0),
\* reflect(rotate(P0)), rotate2(P0), reflect(rotate2(P0)), rotate3(P0),
\* reflect(rotate3(P0)), for symmetry 1, 2, 4 or 8.
C18_PatternExtraction ==
    pc = "patterns" =>
        LET produced == C18_Origins \X (1..front.options.symmetry)
            variant == [ov \in produced |-> C18_Variant(ov[1], ov[2])]
        IN /\ \A k, l \in 1..Len(result) : k # l => result[k][1] # result[l][1]
           /\ {result[k][1] : k \in 1..Len(result)}
                 = {variant[ov] : ov \in produced}
           /\ \A k \in 1..Len(result) :
                 result[k][2] = Cardinality({ov \in produced :
                                                variant[ov] = result[k][1]})

\* Eight variants per window of a periodic input: several patterns came
\* out, with different counts above one.
C18_Witness ==
    /\ pc = "patterns"
    /\ front.options.symmetry = 8
    /\ front.options.periodic_input
    /\ front.options.pattern_size = 2
    /\ Len(result) >= 3
    /\ \E k, l \in 1..Len(result) : result[k][2] > result[l][2] /\ result[l][2] >= 2

\* C15: the table built by generate_propagator holds, for each neighbour
\* entry and each of the eight actions, gid_b in compat[gid_a][d] and gid_a
\* in compat[gid_b][opposite(d)]; so q is in compat[p][d] exactly when p is
\* in compat[q][opposite(d)], for all oriented ids p, q and directions d.
C15_TilingCompatibilitySymmetric ==
    pc = "tiling" =>
        /\ \A n \in 1..Len(front.neighbors), c \in 1..Len(AddCalls) :
              LET l == Lifted(front.neighbors[n], front.tiles,
                              result.oriented_tile_ids,
                              AddCalls[c][1], AddCalls[c][2])
              IN /\ l[3] \in SeqToSet(result.propagator[l[1]][l[2]])
                 /\ l[1] \in SeqToSet(result.propagator[l[3]][opposite(l[2])])
        /\ \A p, q \in DOMAIN result.propagator, d \in Direction :
              q \in SeqToSet(result.propagator[p][d])
                  <=> p \in SeqToSet(result.propagator[q][opposite(d)])

\* Action i of the claim C16 on a grid: i mod 4 quarter turns, after a
\* reflection when i is 4 or more.
C16_Action(i, g) ==
    LET base == IF i >= 4 THEN reflected(g) ELSE g
    IN CASE i % 4 = 0 -> base
         [] i % 4 = 1 -> rotated(base)
         [] i % 4 = 2 -> rotated(rotated(base))
         [] i % 4 = 3 -> rotated(rotated(rotated(base)))

\* C16: for every tile built by Tile::new and every i below its number of
\* orientations, data()[i] is action i applied to data()[0]: i quarter
\* turns for i of 0..3, the reflection and then i - 4 quarter turns for i
\* of 4..7.
C16_TileOrientationIndexing ==
    pc = "tile" =>
        \A i \in 0..(Len(result.data) - 1) :
            result.data[i + 1] = C16_Action(i, result.data[1])

\* The number of orientations the claim C17 gives for a symmetry.
C17_Orientations(symmetry) ==
    CASE symmetry = "X" -> 1
      [] symmetry = "I" -> 2
      [] symmetry = "Backslash" -> 2
      [] symmetry = "T" -> 4
      [] symmetry = "L" -> 4
      [] symmetry = "P" -> 8

RECURSIVE C17_FirstId(_)
\* The number of orientations of the tiles before tile t.
C17_FirstId(t) ==
    IF t = 0 THEN 0
    ELSE C17_FirstId(t - 1) + C17_Orientations(front.tiles[t].symmetry)

\* C17: each tile gets as many oriented ids as its symmetry has
\* orientations, the ids are consecutive per tile and dense from 0,
\* id_to_oriented_tile[oriented_tile_ids[t][o]] = (t, o), and
\* get_tiles_weights has one entry per oriented id, the tile's weight
\* divided by its number of orientations.
C17_OrientedIdExpansion ==
    pc = "tiling" =>
        /\ Len(result.oriented_tile_ids) = Len(front.tiles)
        /\ Len(result.id_to_oriented_tiles) = C17_FirstId(Len(front.tiles))
        /\ Len(result.weights) = C17_FirstId(Len(front.tiles))
        /\ \A t \in 0..(Len(front.tiles) - 1) :
              LET n == C17_Orientations(front.tiles[t + 1].symmetry)
              IN /\ Len(result.oriented_tile_ids[t + 1]) = n
                 /\ \A o \in 0..(n - 1) :
                       LET id == result.oriented_tile_ids[t + 1][o + 1]
                       IN /\ id = C17_FirstId(t) + o
                          /\ result.id_to_oriented_tiles[id + 1] = <<t, o>>
                          /\ result.weights[id + 1] * n
                                = front.tiles[t + 1].weight

\* Two tiles of different numbers of orientations and different weights,
\* the first with more than one orientation.
C17_Witness ==
    /\ pc = "tiling"
    /\ Len(front.tiles) = 2
    /\ front.tiles[1].symmetry = "L"
    /\ front.tiles[2].symmetry = "P"
    /\ front.tiles[1].weight # front.tiles[2].weight

\* The run is the scenario S1.
C11_Scenario ==
    front.input = Checkerboard /\ front.options = CheckerboardOptions

\* C11: in the scenario S1 (the 3x3 checkerboard, not periodic, output
\* 4x4, symmetry 1, pattern size 2, no ground) run succeeds whatever the
\* draws, and every 2x2 window of the output is [[0,1],[1,0]] or
\* [[1,0],[0,1]].
C11_CheckerboardContinued ==
    (C11_Scenario /\ pc = "idle" /\ result.status # "NotRun") =>
        /\ result.status = "Some"
        /\ result.image.height = 4
        /\ result.image.width = 4
        /\ \A i \in 0..2, j \in 0..2 :
              <<At(result.image, i, j), At(result.image, i, j + 1),
                At(result.image, i + 1, j), At(result.image, i + 1, j + 1)>>
                  \in {<<0, 1, 1, 0>>, <<1, 0, 0, 1>>}

\* The scenario S1 ran to its end after observing a cell.
C11_Witness ==
    /\ C11_Scenario
    /\ pc = "idle"
    /\ result.status = "Some"
    /\ observed >= 1

\* The id of the ground pattern in the list of patterns.
C12_GroundId ==
    (CHOOSE k \in 1..Len(front.patterns) :
        front.patterns[k] = get_ground_pattern(front.input, front.options)) - 1

\* C12: with ground = true, after OverlappingWFC::new and in every later
\* state of the solve, no cell of the bottom row allows a pattern other
\* than the ground pattern and no cell of another row allows the ground
\* pattern.
C12_GroundPinned ==
    front.options.ground =>
        \A c \in AllCells :
            IF c[1] = wfc.height - 1
            THEN Allowed(wfc, c) \subseteq {C12_GroundId}
            ELSE C12_GroundId \notin Allowed(wfc, c)

\* A solve with the ground pinned under a row that is not pinned succeeded
\* after observing a cell.
C12_Witness ==
    /\ front.options.ground
    /\ wfc.height >= 2
    /\ Len(front.patterns) >= 2
    /\ result.status = "Some"
    /\ observed >= 1

\* C19: after a successful solve with periodic_output = false, the symbol
\* at the output cell (i, j) is patterns[ids[i'][j']][di][dj] with
\* (i', di) = (i, 0) if i < N else (i - N + 1, N - 1), and (j', dj)
\* likewise from j, N being pattern_size and ids the solver's grid.
C19_NonPeriodicRendering ==
    (result.status = "Some" /\ ~front.options.periodic_output) =>
        LET N == front.options.pattern_size
            cell(i) == IF i < N THEN i ELSE i - N + 1
            offset(i) == IF i < N THEN 0 ELSE N - 1
        IN \A i \in 0..(front.options.out_height - 1),
              j \in 0..(front.options.out_width - 1) :
                At(result.image, i, j)
                  = At(front.patterns[result.grid[<<cell(i), cell(j)>>] + 1],
                       offset(i), offset(j))

\* C21: opposite swaps Down with Up and Left with Right and is an
\* involution, get_coordinates(opposite(d)) is the negation of
\* get_coordinates(d) for every d, with Down = (-1, 0), Left = (0, -1),
\* Right = (0, 1), Up = (1, 0); so does the direction the walk holds.
C21_DirectionAlgebra ==
    /\ opposite(Down) = Up /\ opposite(Up) = Down
    /\ opposite(Left) = Right /\ opposite(Right) = Left
    /\ get_coordinates(Down) = <<-1, 0>> /\ get_coordinates(Left) = <<0, -1>>
    /\ get_coordinates(Right) = <<0, 1>> /\ get_coordinates(Up) = <<1, 0>>
    /\ \A d \in Direction :
          /\ opposite(d) \in Direction
          /\ opposite(opposite(d)) = d
          /\ get_coordinates(opposite(d))
                = <<-get_coordinates(d)[1], -get_coordinates(d)[2]>>
    /\ opposite(opposite(front.direction)) = front.direction
    /\ pc = "coordinates" => result = get_coordinates(front.direction)

\* The walk took a step, turned to the opposite direction and stepped back
\* to the cell it started from.
C21_Witness ==
    /\ pc = "coordinates"
    /\ front.turned
    /\ front.at = front.start
    /\ result = <<-1, 0>>

C23_EachBanEnqueuedOnce ==
    /\ \A t \in DOMAIN twin : twin[t] <= 1
    /\ \A k \in 1..Len(wfc.propagating_queue) :
          ~WaveGet(wfc, wfc.propagating_queue[k][1],
                   wfc.propagating_queue[k][2], wfc.propagating_queue[k][3])
    /\ \A c \in AllCells, p \in Patterns :
          twin[<<c, p>>] = IF WaveGet(wfc, c[1], c[2], p) THEN 0 ELSE 1
    /\ observed <= wfc.height * wfc.width * Cardinality(Patterns)
    /\ observed = Cardinality({t \in DOMAIN twin : twin[t] >= 1})

\* Inside propagate, two triples wait in the queue after inline bans, and
\* every pattern of every cell has been banned and pushed.
C23_Witness ==
    /\ pc = "propagate"
    /\ Len(wfc.propagating_queue) >= 2
    /\ wfc.height * wfc.width >= 2
    /\ observed = wfc.height * wfc.width * Cardinality(Patterns)

\* C24: whenever the queue is empty, for every cell and pattern p, if one
\* of the four counters compatible[y][x][p][d] is 0 then p is banned at
\* the cell.
C24_ZeroCounterBanned ==
    wfc.propagating_queue = <<>> =>
        \A c \in AllCells, p \in Patterns, d \in Direction :
            wfc.compatible[c][p][d] = 0 => ~WaveGet(wfc, c[1], c[2], p)

\* C25: in every state of the propagator, inside propagate too, the four
\* counters of a pattern banned at a cell are zero or negative; until the
\* next reset they never grow, so none comes back to 0 from below and a
\* banned pattern is not pushed a second time.
C25_BannedCountersNonPositive ==
    /\ [](\A c \in AllCells, p \in Patterns :
            ~WaveGet(wfc, c[1], c[2], p) =>
                /\ \A d \in Direction : wfc.compatible[c][p][d] <= 0
                /\ twin[<<c, p>>] = 1)
    /\ [][result'.call = "reset"
          \/ \A c \in AllCells, p \in Patterns, d \in Direction :
                ~WaveGet(wfc, c[1], c[2], p) =>
                    /\ ~WaveGet(wfc', c[1], c[2], p)
                    /\ wfc'.compatible[c][p][d] <= wfc.compatible[c][p][d]]_vars

\* Inside propagate a pattern banned earlier has a counter below zero.
C25_Witness ==
    /\ pc = "propagate"
    /\ \E c \in AllCells, p \in Patterns, d \in Direction :
          /\ ~WaveGet(wfc, c[1], c[2], p)
          /\ wfc.compatible[c][p][d] < 0

\* C26: Propagator::unset and Wave::unset called on a pattern already
\* banned at the cell leave the wave bits, the entropy memo, the support
\* counters and the queue unchanged.
C26_BanIdempotent ==
    /\ [](pc = "idle" =>
            \A c \in AllCells, p \in Patterns :
                ~WaveGet(wfc, c[1], c[2], p) =>
                    /\ unset(wfc, c[1], c[2], p) = wfc
                    /\ WaveUnset(wfc, c[1], c[2], p) = wfc)
    /\ [][(result'.call = "unset" /\ ~result'.was_allowed) =>
              UNCHANGED <<wfc, twin, observed>>]_vars

\* unset was called on a pattern banned by an earlier propagation, one of
\* whose counters is below zero.
C26_Witness ==
    /\ pc = "idle"
    /\ result.call = "unset"
    /\ ~result.was_allowed
    /\ \E c \in AllCells, p \in Patterns, d \in Direction :
          wfc.compatible[c][p][d] < 0

\* The cells get_min_entropy scans and compares, by their place in the
\* scan: those with two patterns or more before the first cell without
\* any pattern.
C27_Scanned ==
    LET order == iter_enumerate(wfc.height, wfc.width)
    IN {k \in 1..Len(order) :
           /\ Cardinality(Allowed(wfc, order[k])) >= 2
           /\ \A j \in 1..(k - 1) : Allowed(wfc, order[j]) # {}}

\* The entropy of each cell of the scan that is compared.
C27_Entropy ==
    [k \in C27_Scanned |->
        EntropyOfSet(Allowed(wfc, iter_enumerate(wfc.height, wfc.width)[k]))]

\* The cells whose entropy is lower than or equal to the running minimum
\* at the time they are scanned, e being the entropies.
C27_Candidates(e) ==
    {k \in DOMAIN e :
        \A j \in DOMAIN e : j < k => FractionLeq(e[k], e[j])}

\* The cells that share the final minimum entropy.
C27_Minimal(e) ==
    {k \in DOMAIN e : \A j \in DOMAIN e : FractionLeq(e[k], e[j])}

\* The draw taken for the candidate k, the draws being rnd in their order.
C27_Draw(rnd, candidates, k) ==
    rnd[Cardinality({j \in candidates : j <= k})]

\* C27: get_min_entropy draws one random integer for each cell whose
\* entropy is lower than or equal to the running minimum when it is
\* scanned, and returns, among the cells that share the final minimum
\* entropy, the one with the smallest draw, the earliest scanned of them
\* when draws are equal.
C27_TieBreak ==
    result.step = "Selector" =>
        \A e \in {C27_Entropy} :
        \A candidates \in {C27_Candidates(e)}, minimal \in {C27_Minimal(e)} :
        \A rnd \in Draws(wfc) :
        \A r \in {get_min_entropy(wfc, rnd)} :
            /\ r.used = Cardinality(candidates)
            /\ r.status = "Ok" =>
                  \E k \in minimal :
                     /\ r.cell = iter_enumerate(wfc.height, wfc.width)[k]
                     /\ \A j \in minimal :
                           \/ C27_Draw(rnd, candidates, k)
                                 < C27_Draw(rnd, candidates, j)
                           \/ /\ C27_Draw(rnd, candidates, k)
                                    = C27_Draw(rnd, candidates, j)
                              /\ k <= j

\* The selector returned the last scanned of three cells that share the
\* minimum entropy, after a cell of a larger entropy that took a draw too.
C27_Witness ==
    /\ result.step = "Selector"
    /\ result.status = "Ok"
    /\ Cardinality(C27_Minimal(C27_Entropy)) = 3
    /\ Cardinality(C27_Candidates(C27_Entropy)) = 4
    /\ \A k \in C27_Minimal(C27_Entropy) :
          iter_enumerate(wfc.height, wfc.width)[k] = result.grid
              => \A j \in C27_Minimal(C27_Entropy) : j <= k

\* C28: run terminates: a step that returns Ok turns a cell of two allowed
\* patterns or more into a cell of one at most, no step adds an allowed
\* pattern to a cell, a run takes at most H * W steps that return Ok, and
\* a run that has started ends, with Finished or Impossible.
C28_RunTerminates ==
    /\ [](observed <= wfc.height * wfc.width)
    /\ [][/\ result'.step = "Ok" =>
                /\ Cardinality(Allowed(wfc, result'.cell)) >= 2
                /\ Cardinality(Allowed(wfc', result'.cell)) <= 1
          /\ result'.step \in {"Ok", "Finished", "Impossible"} =>
                \A c \in AllCells : Allowed(wfc', c) \subseteq Allowed(wfc, c)]_vars
    /\ (pc = "run") ~> (pc = "idle" /\ result.step \in {"Finished", "Impossible"})

\* A run ended after as many steps that returned Ok as the grid has cells,
\* on a grid of four cells.
C28_Witness ==
    /\ pc = "idle"
    /\ result.step = "Finished"
    /\ wfc.height * wfc.width = 4
    /\ observed = 4

\* What is left to do in propagate: the triples that wait, and two for
\* every pattern that is still allowed at a cell.
C29_Measure(st) ==
    Len(st.propagating_queue)
      + 2 * Cardinality({t \in Cells(st.height, st.width) \X Patterns :
                            WaveGet(st, t[1][1], t[1][2], t[2])})

\* C29: propagate always terminates, and the queue is empty whenever new,
\* reset or unset returns: every iteration of propagate lowers what is left
\* to do, a propagate that has started returns, the queue is empty between
\* two calls, so that reset leaves no triple behind and the next unset
\* starts propagate with its own triple alone.
C29_PropagateTerminates ==
    /\ [](pc = "idle" => wfc.propagating_queue = <<>>)
    /\ [][/\ (pc = "propagate" /\ pc' = "propagate")
                => C29_Measure(wfc') < C29_Measure(wfc)
          /\ result'.call = "reset" => wfc'.propagating_queue = <<>>
          /\ (pc = "idle" /\ pc' = "propagate")
                => Len(wfc'.propagating_queue) = 1]_vars
    /\ (pc = "propagate") ~> (pc = "idle")

\* unset has returned after a propagate that pushed three triples or more.
C29_Witness ==
    /\ pc = "idle"
    /\ result.call = "unset"
    /\ result.was_allowed
    /\ observed >= 3
    /\ wfc.propagating_queue = <<>>

\* C30: for every input, pattern size that fits in it, supported symmetry
\* and periodic flag, the pattern get_ground_pattern returns is one of the
\* patterns get_patterns returns for the same flag and size, so that the
\* lookup of init_ground finds its id.
C30_GroundPatternFound ==
    pc = "patterns"
        => \E k \in 1..Len(result) :
              result[k][1] = get_ground_pattern(front.input, front.options)

\* A non-periodic input with several patterns, where the ground pattern is
\* not the first one get_patterns hands out.
C30_Witness ==
    /\ pc = "patterns"
    /\ ~front.options.periodic_input
    /\ front.options.pattern_size >= 2
    /\ Len(result) >= 2
    /\ result[1][1] # get_ground_pattern(front.input, front.options)

====
